---- MODULE Spec2Model ----
(***************************************************************************)
(* The 3D projective geometric algebra kernel of foijord/pga.             *)
(*                                                                         *)
(* Two source files carry the kernel: src/CMakeLists.txt holds the         *)
(* variant whose line is six flat fields (mx,my,mz,vx,vy,vz), with the     *)
(* dualization operators and the five self-checks; src/pga.cpp holds the   *)
(* variant whose line is a direction v plus a moment m.  Coordinates are   *)
(* C++ floats; here they are integers of a small range, on which float     *)
(* arithmetic is exact, so == of the source is equality of the integers.   *)
(*                                                                         *)
(* The state is one evaluation of the harness: two operands A and B made   *)
(* by literal initialization, the expression that was evaluated (pc) and   *)
(* the values it produced (out).                                           *)
(***************************************************************************)
EXTENDS Integers, FiniteSets

VARIABLES A, B, pc, out

vars == <<A, B, pc, out>>

\* Largest coordinate of an operand; the smallest is -1.
MaxCoord == 1
\* Largest number of non-zero coordinates of a line operand.
MaxSupport == 3

Coord == (-1) .. MaxCoord

(***************************************************************************)
(* Entity types.                                                           *)
(***************************************************************************)

\* struct point { x/e1, y/e2, z/e3, w/e4 }
point(x, y, z, w) == [k |-> "point", x |-> x, y |-> y, z |-> z, w |-> w]

\* struct plane { x/e234, y/e314, z/e124, w/e321 }
plane(x, y, z, w) == [k |-> "plane", x |-> x, y |-> y, z |-> z, w |-> w]

\* struct line of the flat variant: mx/e23, my/e31, mz/e12, vx/e41, vy/e42, vz/e43
line(e23, e31, e12, e41, e42, e43) ==
    [k |-> "line", mx |-> e23, my |-> e31, mz |-> e12,
                   vx |-> e41, vy |-> e42, vz |-> e43]

\* struct line of the direction+moment variant: v = (e41,e42,e43), m = (e23,e31,e12)
dm_line(e41, e42, e43, e23, e31, e12) ==
    [k |-> "line", v |-> [x |-> e41, y |-> e42, z |-> e43],
                   m |-> [x |-> e23, y |-> e31, z |-> e12]]

\* The same line, basis coordinate by basis coordinate, in the other layout.
ToFlat(l) == line(l.m.x, l.m.y, l.m.z, l.v.x, l.v.y, l.v.z)
ToDM(l) == dm_line(l.vx, l.vy, l.vz, l.mx, l.my, l.mz)

Point == {point(x, y, z, w) : x \in Coord, y \in Coord, z \in Coord, w \in Coord}
Plane == {plane(x, y, z, w) : x \in Coord, y \in Coord, z \in Coord, w \in Coord}

Support(l) ==
    Cardinality({i \in 1 .. 6 : <<l.mx, l.my, l.mz, l.vx, l.vy, l.vz>>[i] # 0})

Line ==
    {l \in {line(a, b, c, d, e, f) : a \in Coord, b \in Coord, c \in Coord,
                                     d \in Coord, e \in Coord, f \in Coord} :
        Support(l) <= MaxSupport}

(***************************************************************************)
(* Join and meet, flat variant (src/CMakeLists.txt).                       *)
(***************************************************************************)

\* line operator^(const point& p, const point& q)
JoinPointPoint(p, q) ==
    line(p.y * q.z - p.z * q.y,
         p.z * q.x - p.x * q.z,
         p.x * q.y - p.y * q.x,
         p.w * q.x - p.x * q.w,
         p.w * q.y - p.y * q.w,
         p.w * q.z - p.z * q.w)

\* plane operator^(const line& l, const point& p)
JoinLinePoint(l, p) ==
    plane(l.vy * p.z - l.vz * p.y + l.mx * p.w,
          l.vz * p.x - l.vx * p.z + l.my * p.w,
          l.vx * p.y - l.vy * p.x + l.mz * p.w,
          -(l.mx * p.x + l.my * p.y + l.mz * p.z))

\* line operator&(const plane& f, const plane& g)
MeetPlanePlane(f, g) ==
    line(f.x * g.w - f.w * g.x,
         f.y * g.w - f.w * g.y,
         f.z * g.w - f.w * g.z,
         f.z * g.y - f.y * g.z,
         f.x * g.z - f.z * g.x,
         f.y * g.x - f.x * g.y)

\* point operator&(const line& l, const plane& f)
MeetLinePlane(l, f) ==
    point(l.my * f.z - l.mz * f.y + l.vx * f.w,
          l.mz * f.x - l.mx * f.z + l.vy * f.w,
          l.mx * f.y - l.my * f.x + l.vz * f.w,
          -(l.vx * f.x + l.vy * f.y + l.vz * f.z))

\* point operator&(const plane& f, const line& l)
MeetPlaneLine(f, l) == MeetLinePlane(l, f)

(***************************************************************************)
(* Dualization (src/CMakeLists.txt).                                       *)
(***************************************************************************)

\* A dual of a point that drops the sign of the weight.
DualPoint_unsigned(p) == plane(0, 0, 0, p.w)

\* A dual of a point that keeps the spatial coordinates.
DualPoint_copy(p) == plane(p.x, p.y, p.z, -p.w)

\* plane operator!(const point& p): plane at infinity
DualPoint(p) == plane(0, 0, 0, -p.w)

\* A dual of a line that writes the negated direction into e41, e42, e43.
DualLine_direction(l) == line(0, 0, 0, -l.vx, -l.vy, -l.vz)

\* line operator!(const line& l): line at infinity perpendicular to line l
DualLine(l) == line(-l.vx, -l.vy, -l.vz, 0, 0, 0)

\* A dual of a plane that keeps the offset as the weight.
DualPlane_copy(f) == point(f.x, f.y, f.z, f.w)

\* point operator!(const plane& f): point at infinity perpendicular to plane f
DualPlane(f) == point(f.x, f.y, f.z, 0)

(***************************************************************************)
(* Join and meet, direction+moment variant (src/pga.cpp).                  *)
(***************************************************************************)

\* A join of two points whose e41 adds the two products.
DM_JoinPointPoint_sum(p, q) ==
    dm_line(q.x * p.w + p.x * q.w,
            q.y * p.w - p.y * q.w,
            q.z * p.w - p.z * q.w,
            p.y * q.z - p.z * q.y,
            p.z * q.x - p.x * q.z,
            p.x * q.y - p.y * q.x)

\* A join of two points whose e23 adds the two products.
DM_JoinPointPoint_moment(p, q) ==
    dm_line(q.x * p.w - p.x * q.w,
            q.y * p.w - p.y * q.w,
            q.z * p.w - p.z * q.w,
            p.y * q.z + p.z * q.y,
            p.z * q.x - p.x * q.z,
            p.x * q.y - p.y * q.x)

\* line operator^(const point& p, const point& q)
DM_JoinPointPoint(p, q) ==
    dm_line(q.x * p.w - p.x * q.w,
            q.y * p.w - p.y * q.w,
            q.z * p.w - p.z * q.w,
            p.y * q.z - p.z * q.y,
            p.z * q.x - p.x * q.z,
            p.x * q.y - p.y * q.x)

\* plane operator^(const line& l, const point& p)
DM_JoinLinePoint(l, p) ==
    LET v == l.v
        m == l.m
    IN  plane(v.y * p.z - v.z * p.y + m.x * p.w,
              v.z * p.x - v.x * p.z + m.y * p.w,
              v.x * p.y - v.y * p.x + m.z * p.w,
              -(m.x * p.x + m.y * p.y + m.z * p.z))

\* A meet of two planes whose moment has the operands exchanged.
DM_MeetPlanePlane_moment(f, g) ==
    dm_line(f.z * g.y - f.y * g.z,
            f.x * g.z - f.z * g.x,
            f.y * g.x - f.x * g.y,
            g.x * f.w - f.x * g.w,
            g.y * f.w - f.y * g.w,
            g.z * f.w - f.z * g.w)

\* line operator&(const plane& f, const plane& g)
DM_MeetPlanePlane(f, g) ==
    dm_line(f.z * g.y - f.y * g.z,
            f.x * g.z - f.z * g.x,
            f.y * g.x - f.x * g.y,
            f.x * g.w - g.x * f.w,
            f.y * g.w - g.y * f.w,
            f.z * g.w - g.z * f.w)

\* point operator&(const line& l, const plane& f)
DM_MeetLinePlane(l, f) ==
    LET v == l.v
        m == l.m
    IN  point(m.y * f.z - m.z * f.y + v.x * f.w,
              m.z * f.x - m.x * f.z + v.y * f.w,
              m.x * f.y - m.y * f.x + v.z * f.w,
              -(v.x * f.x + v.y * f.y + v.z * f.z))

(***************************************************************************)
(* Overload resolution of the operators ^, & and ! on the operand types.   *)
(***************************************************************************)

Join(a, b) ==
    IF a.k = "point" THEN JoinPointPoint(a, b) ELSE JoinLinePoint(a, b)

Meet(a, b) ==
    IF a.k = "plane" /\ b.k = "plane" THEN MeetPlanePlane(a, b)
    ELSE IF a.k = "line" THEN MeetLinePlane(a, b)
    ELSE MeetPlaneLine(a, b)

Dual(e) ==
    IF e.k = "point" THEN DualPoint(e)
    ELSE IF e.k = "line" THEN DualLine(e)
    ELSE DualPlane(e)

DM_Join(a, b) ==
    IF a.k = "point" THEN DM_JoinPointPoint(a, b)
    ELSE DM_JoinLinePoint(ToDM(a), b)

DM_Meet(a, b) ==
    IF a.k = "plane" THEN DM_MeetPlanePlane(a, b)
    ELSE DM_MeetLinePlane(ToDM(a), b)

(***************************************************************************)
(* The closed forms of the self-checks (src/CMakeLists.txt).               *)
(***************************************************************************)

\* test_line_from_plane_and_point: the line l, "equivalent to !f ^ p"
LineFromPlaneAndPoint(f, p) ==
    line(f.y * p.z - f.z * p.y,
         f.z * p.x - f.x * p.z,
         f.x * p.y - f.z * p.x,
         -f.x * p.w,
         -f.y * p.w,
         -f.z * p.w)

\* test_project_point_onto_plane: the point pf
ProjectPointOntoPlane(f, p) ==
    LET f2 == f.x * f.x + f.y * f.y + f.z * f.z
        fp == f.x * p.x + f.y * p.y + f.z * p.z + f.w * p.w
    IN  point(f2 * p.x - fp * f.x,
              f2 * p.y - fp * f.y,
              f2 * p.z - fp * f.z,
              p.w)

\* test_project_point_onto_line: the point pl
ProjectPointOntoLine(l, p) ==
    point((l.vy * l.mz - l.vz * l.my) * p.w,
          (l.vz * l.mx - l.vx * l.mz) * p.w,
          (l.vx * l.my - l.vy * l.mx) * p.w,
          l.vx * p.x + l.vy * p.y + l.vz * p.z
              + (l.vx * l.vx + l.vy * l.vy + l.vz * l.vz) * p.w)

(***************************************************************************)
(* The state machine: operands by literal initialization, then one         *)
(* expression of the harness evaluated on them.                            *)
(***************************************************************************)

Operands ==
    (Point \X Point) \cup (Line \X Point) \cup (Plane \X Plane)
        \cup (Line \X Plane) \cup (Plane \X Point)

Init ==
    /\ \E ops \in Operands : A = ops[1] /\ B = ops[2]
    /\ pc = "start"
    /\ out = [k |-> "none"]

\* A ^ B, in both variants of the kernel
EvalJoin ==
    /\ pc = "start"
    /\ A.k \in {"point", "line"} /\ B.k = "point"
    /\ out' = [flat |-> Join(A, B), dm |-> DM_Join(A, B)]
    /\ pc' = "join"
    /\ UNCHANGED <<A, B>>

\* A & B, in both variants of the kernel
EvalMeet ==
    /\ pc = "start"
    /\ A.k \in {"plane", "line"} /\ B.k = "plane"
    /\ out' = [flat |-> Meet(A, B), dm |-> DM_Meet(A, B)]
    /\ pc' = "meet"
    /\ UNCHANGED <<A, B>>

\* !A & !B against !(A ^ B)
MeetOfDuals ==
    /\ pc = "start"
    /\ A.k \in {"point", "line"} /\ B.k = "point"
    /\ out' = [lhs |-> Meet(Dual(A), Dual(B)), rhs |-> Dual(Join(A, B))]
    /\ pc' = "meet_of_duals"
    /\ UNCHANGED <<A, B>>

\* !A ^ !B against !(A & B)
JoinOfDuals ==
    /\ pc = "start"
    /\ A.k \in {"plane", "line"} /\ B.k = "plane"
    /\ out' = [lhs |-> Join(Dual(A), Dual(B)), rhs |-> Dual(Meet(A, B))]
    /\ pc' = "join_of_duals"
    /\ UNCHANGED <<A, B>>

\* A & B against !(!A ^ !B)
DualOfJoinOfDuals ==
    /\ pc = "start"
    /\ A.k \in {"plane", "line"} /\ B.k = "plane"
    /\ out' = [lhs |-> Meet(A, B), rhs |-> Dual(Join(Dual(A), Dual(B)))]
    /\ pc' = "dual_of_join_of_duals"
    /\ UNCHANGED <<A, B>>

\* !A and !!A
DoubleDual ==
    /\ pc = "start"
    /\ out' = [d |-> Dual(A), dd |-> Dual(Dual(A))]
    /\ pc' = "double_dual"
    /\ UNCHANGED <<A, B>>

\* l == (!f ^ p), with f = A and p = B
test_line_from_plane_and_point ==
    /\ pc = "start"
    /\ A.k = "plane" /\ B.k = "point"
    /\ LET l == LineFromPlaneAndPoint(A, B)
           r == Join(Dual(A), B)
       IN  out' = [direct |-> l, dualized |-> r, passed |-> (l = r)]
    /\ pc' = "test_line_from_plane_and_point"
    /\ UNCHANGED <<A, B>>

\* pf == (((!f) ^ p) & f), with f = A and p = B
test_project_point_onto_plane ==
    /\ pc = "start"
    /\ A.k = "plane" /\ B.k = "point"
    /\ LET pf == ProjectPointOntoPlane(A, B)
           r == Meet(Join(Dual(A), B), A)
       IN  out' = [direct |-> pf, dualized |-> r, passed |-> (pf = r)]
    /\ pc' = "test_project_point_onto_plane"
    /\ UNCHANGED <<A, B>>

\* pl == (((!l) ^ p) & l), with l = A and p = B
test_project_point_onto_line ==
    /\ pc = "start"
    /\ A.k = "line" /\ B.k = "point"
    /\ LET pl == ProjectPointOntoLine(A, B)
           r == Meet(Join(Dual(A), B), A)
       IN  out' = [direct |-> pl, dualized |-> r, passed |-> (pl = r)]
    /\ pc' = "test_project_point_onto_line"
    /\ UNCHANGED <<A, B>>

Next ==
    \/ EvalJoin
    \/ EvalMeet
    \/ MeetOfDuals
    \/ JoinOfDuals
    \/ DualOfJoinOfDuals
    \/ DoubleDual
    \/ test_line_from_plane_and_point
    \/ test_project_point_onto_plane
    \/ test_project_point_onto_line

Spec == Init /\ [][Next]_vars

(***************************************************************************)
(* Vocabulary of the properties.                                           *)
(***************************************************************************)

\* The coordinates of an entity by basis element: a line of either layout as
\* (e23, e31, e12, e41, e42, e43), a point as (e1, e2, e3, e4), a plane as
\* (e234, e314, e124, e321).
Coords(e) ==
    IF e.k = "line"
    THEN IF "v" \in DOMAIN e
         THEN <<e.m.x, e.m.y, e.m.z, e.v.x, e.v.y, e.v.z>>
         ELSE <<e.mx, e.my, e.mz, e.vx, e.vy, e.vz>>
    ELSE <<e.x, e.y, e.z, e.w>>

Times(n, t) == [i \in DOMAIN t |-> n * t[i]]

IsZero(e) == \A i \in DOMAIN Coords(e) : Coords(e)[i] = 0

\* The direction of a line, the normal of a plane.
WeightIsZero(e) ==
    IF e.k = "line" THEN e.vx = 0 /\ e.vy = 0 /\ e.vz = 0
    ELSE e.x = 0 /\ e.y = 0 /\ e.z = 0

\* Two coordinate tuples that are one another's multiple: a * p = b * q for
\* scales a, b that are not both 0.  With a = 0 or b = 0 this makes the
\* all-zero tuple coincident with every tuple.
Coincident(p, q) ==
    \E a \in Coord, b \in Coord :
        /\ <<a, b>> # <<0, 0>>
        /\ Times(a, Coords(p)) = Times(b, Coords(q))

\* The lines that are the join of two points.
JoinLines == {JoinPointPoint(a, b) : a \in Point, b \in Point}

(***************************************************************************)
(* Properties.                                                             *)
(***************************************************************************)

\* C1 as stated: for A, B points and for A a line, B a point,
\* meet(dual(A), dual(B)) equals dual(join(A, B)) coordinate for coordinate.
C1_MeetOfDualsIsDualOfJoin ==
    pc = "meet_of_duals" => out.lhs = out.rhs

\* C1 amended: for A, B points and for A a line, B a point,
\* meet(dual(A), dual(B)) is the all-zero entity, so it equals
\* dual(join(A, B)) exactly when the direction of the line join(A, B),
\* respectively the normal of the plane join(A, B), is zero.
C1_MeetOfDualsIsZero ==
    pc = "meet_of_duals" =>
        /\ IsZero(out.lhs)
        /\ (out.lhs = out.rhs) <=> WeightIsZero(Join(A, B))

C1_Witness ==
    /\ pc = "meet_of_duals"
    /\ A.k = "line"
    /\ IsZero(out.lhs)
    /\ ~IsZero(out.rhs)

\* C2: for A, B planes and for A a line, B a plane,
\* join(dual(A), dual(B)) equals dual(meet(A, B)) coordinate for coordinate.
C2_JoinOfDualsIsDualOfMeet ==
    pc = "join_of_duals" => out.lhs = out.rhs

C2_Witness ==
    /\ pc = "join_of_duals"
    /\ A.k = "line"
    /\ ~IsZero(out.lhs)
    /\ out.lhs = out.rhs

\* C3 as stated: for A, B planes and for A a line, B a plane,
\* meet(A, B) equals dual(join(dual(A), dual(B))) coordinate for coordinate.
C3_MeetIsDualOfJoinOfDuals ==
    pc = "dual_of_join_of_duals" => out.lhs = out.rhs

\* C3 amended: for A, B planes and for A a line, B a plane,
\* dual(join(dual(A), dual(B))) is the all-zero entity, so meet(A, B)
\* equals it exactly when meet(A, B) is itself all-zero.
C3_DualOfJoinOfDualsIsZero ==
    pc = "dual_of_join_of_duals" =>
        /\ IsZero(out.rhs)
        /\ (out.lhs = out.rhs) <=> IsZero(out.lhs)

C3_Witness ==
    /\ pc = "dual_of_join_of_duals"
    /\ A.k = "plane"
    /\ ~IsZero(out.lhs)
    /\ IsZero(out.rhs)

\* C4 as stated: dual(dual(e)) is e times a non-zero scale, for every
\* point, line and plane e.
C4_DoubleDualReconstructs ==
    pc = "double_dual" =>
        \E n \in Coord \ {0}, d \in Coord \ {0} :
            Times(d, Coords(out.dd)) = Times(n, Coords(A))

\* C4 amended: dual(dual(e)) is the all-zero entity for every point, line
\* and plane e: the only scale k with dual(dual(e)) = k*e for all e is 0.
C4_DoubleDualIsZero ==
    pc = "double_dual" => out.dd.k = A.k /\ IsZero(out.dd)

C4_Witness ==
    /\ pc = "double_dual"
    /\ A.k = "line"
    /\ ~IsZero(out.d)
    /\ IsZero(out.dd)

C6_Pluecker ==
    pc = "join" /\ A.k = "point" /\ A.w # 0 /\ B.w # 0 =>
        out.dm.v.x * out.dm.m.x + out.dm.v.y * out.dm.m.y
            + out.dm.v.z * out.dm.m.z = 0

C6_Witness ==
    /\ pc = "join"
    /\ A.k = "point"
    /\ A.w # 0 /\ B.w # 0
    /\ out.dm.v.x # 0 /\ out.dm.v.y # 0
    /\ out.dm.m.x # 0 /\ out.dm.m.y # 0

\* C7: for every plane f and point p the closed form of
\* test_project_point_onto_plane equals meet(join(dual(f), p), f) in all
\* four coordinates, weight included.
C7_ProjectOntoPlane ==
    pc = "test_project_point_onto_plane" => out.direct = out.dualized

\* C8: for every line l that is the join of two points and every point p
\* the closed form of test_project_point_onto_line equals
\* meet(join(dual(l), p), l) in all four coordinates.
C8_ProjectOntoLine ==
    pc = "test_project_point_onto_line" /\ A \in JoinLines =>
        out.direct = out.dualized

\* C9: for every plane f and point p the closed-form line of
\* test_line_from_plane_and_point equals join(dual(f), p) in all six
\* coordinates.
C9_LineFromPlaneAndPoint ==
    pc = "test_line_from_plane_and_point" => out.direct = out.dualized

\* C10: join(point, point), join(line, point), meet(plane, plane) and
\* meet(line, plane) of the direction+moment variant return, basis
\* coordinate by basis coordinate, what the flat variant returns.
C10_VariantsAgree ==
    pc \in {"join", "meet"} =>
        /\ out.dm.k = out.flat.k
        /\ Coords(out.dm) = Coords(out.flat)

C10_Witness ==
    /\ pc = "meet"
    /\ A.k = "plane"
    /\ \A i \in 1 .. 6 : Coords(out.dm)[i] # 0
    /\ Coords(out.dm) = Coords(out.flat)

====
